---- MODULE Spec2Model ----
(***************************************************************************)
(* A model of the twirp-rs protocol runtime (src/src/service_run.rs) and   *)
(* of the server dispatch emitted by the stub generator                    *)
(* (src/src/service_gen.rs, generate_handler).                             *)
(*                                                                         *)
(* Texts (String, &str) are sequences of one-character strings; bodies     *)
(* (Vec<u8>) are sequences of byte values 0..255; as_bytes/from_utf8 go    *)
(* through the ASCII table.  Header values and HTTP versions are strings.  *)
(***************************************************************************)
EXTENDS Integers, Sequences, FiniteSets, TLC

VARIABLES
    cli,      \* the client call: HyperClient::go's position, inputs and result
    hreq,     \* the HTTP request on the wire (a sequence of zero or one)
    srv,      \* the server dispatch: Service::call's position and request
    hresp,    \* the HTTP response on the wire (a sequence of zero or one)
    log,      \* the steps the server dispatch has taken, in order
    nSent,    \* HTTP requests the client has issued
    fin,      \* input of the pure operation under check
    fout      \* its result (a sequence of zero or one)

vars == <<cli, hreq, srv, hresp, log, nSent, fin, fout>>

-----------------------------------------------------------------------------
(* Bounds of the model.                                                    *)

\* the deepest nesting of AfterBodyError layers drawn as an input
MaxWrap == 2
\* the most slashes at the end of a root URL or at the start of a path
MaxSlash == 2
\* the longest raw body drawn as an input of to_hyper_raw
MaxBody == 3

-----------------------------------------------------------------------------
(* Text and bytes.                                                         *)

\* the printable ASCII characters, 32..126, in order (the grave accent, which a
\* string of this language cannot hold, by its name)
Printable ==
    <<" ","!","\"","#","$","%","&","'","(",")","*","+",",","-",".","/",
      "0","1","2","3","4","5","6","7","8","9",":",";","<","=",">","?",
      "@","A","B","C","D","E","F","G","H","I","J","K","L","M","N","O",
      "P","Q","R","S","T","U","V","W","X","Y","Z","[","\\","]","^","_",
      "GRAVE","a","b","c","d","e","f","g","h","i","j","k","l","m","n","o",
      "p","q","r","s","t","u","v","w","x","y","z","{","|","}","~">>

\* the ASCII table: the byte of each printable character
Ascii ==
    LET Table(chars) ==
            [c \in {chars[i] : i \in 1..Len(chars)} |->
                31 + (CHOOSE i \in 1..Len(chars) : chars[i] = c)]
    IN  Table(Printable)

\* the byte of an ASCII character
Ord(c) == Ascii[c]

IsPrintable(b) == b >= 32 /\ b <= 126

\* the character of a printable byte
Chr(b) == Printable[b - 31]

\* str::as_bytes: the UTF-8 bytes of an ASCII text
as_bytes(t) == [i \in 1..Len(t) |-> Ord(t[i])]

\* the least member of a set of numbers
Min(S) == CHOOSE x \in S : \A y \in S : x <= y

\* the greatest member of a set of numbers
Max(S) == CHOOSE x \in S : \A y \in S : x >= y

\* the members of a set of numbers in rising order
Sorted(S) == [k \in 1..Cardinality(S) |-> CHOOSE p \in S : Cardinality({q \in S : q <= p}) = k]

\* the decimal digits of a u64 (Display for integers), as a string
DigitStr == <<"0","1","2","3","4","5","6","7","8","9">>

RECURSIVE u64_to_string(_)
u64_to_string(n) ==
    IF n < 10 THEN DigitStr[n + 1]
    ELSE u64_to_string(n \div 10) \o DigitStr[(n % 10) + 1]

\* str::trim_right_matches('/'): drop every trailing '/'
RECURSIVE trim_right_matches(_)
trim_right_matches(t) ==
    IF t # <<>> /\ t[Len(t)] = "/"
    THEN trim_right_matches(SubSeq(t, 1, Len(t) - 1))
    ELSE t

\* str::trim_left_matches('/'): drop every leading '/'
RECURSIVE trim_left_matches(_)
trim_left_matches(t) ==
    IF t # <<>> /\ Head(t) = "/" THEN trim_left_matches(Tail(t)) ELSE t

-----------------------------------------------------------------------------
(* Headers: hyper's HeaderMap, a multimap from a (lower-case) name to the  *)
(* list of its values.                                                     *)

CONTENT_TYPE == "content-type"
CONTENT_LENGTH == "content-length"
X_TRACE == "x-trace"

HeaderNames == {CONTENT_TYPE, CONTENT_LENGTH, X_TRACE}

\* HeaderMap::new
HeaderMap_new == [h \in HeaderNames |-> <<>>]

\* HeaderMap::insert: the value replaces every value the name had
HeaderMap_insert(hm, name, v) == [hm EXCEPT ![name] = <<v>>]

\* http::response::Builder::header: HeaderMap::append, the value is added
HeaderMap_append(hm, name, v) == [hm EXCEPT ![name] = Append(@, v)]

application_proto == "application/protobuf"

application_json == "application/json"

\* Version::default()
Version_default == "HTTP/1.1"

\* StatusCode::is_success
is_success(status) == status >= 200 /\ status <= 299

-----------------------------------------------------------------------------
(* The protobuf codec of a message with one int32 field, number 1 (prost's *)
(* derived Message).                                                        *)

\* prost::encoding::encode_varint
RECURSIVE encode_varint(_)
encode_varint(v) ==
    IF v < 128 THEN <<v>>
    ELSE <<128 + (v % 128)>> \o encode_varint(v \div 128)

\* Message::encode: a default (zero) field is omitted, else key 0x08 and the value
Message_encode(m) == IF m.n = 0 THEN <<>> ELSE <<8>> \o encode_varint(m.n)

\* prost::encoding::decode_varint at position i: [ok, val, next]
RECURSIVE decode_varint(_, _)
decode_varint(b, i) ==
    IF i > Len(b) THEN [ok |-> FALSE, val |-> 0, next |-> i]
    ELSE IF b[i] < 128 THEN [ok |-> TRUE, val |-> b[i], next |-> i + 1]
    ELSE LET r == decode_varint(b, i + 1)
         IN  [ok |-> r.ok, val |-> (b[i] - 128) + 128 * r.val, next |-> r.next]

\* Message::merge from position i with the field so far n: [ok, n].  The bodies
\* drawn hold varints below 2^31 only, which the cast to i32 leaves as they are.
RECURSIVE Message_merge(_, _, _)
Message_merge(b, i, n) ==
    IF i > Len(b) THEN [ok |-> TRUE, n |-> n]
    ELSE
      LET key == decode_varint(b, i)
          wt  == key.val % 8
          tag == key.val \div 8
          bad == [ok |-> FALSE, n |-> 0]
      IN  IF ~key.ok \/ tag < 1 THEN bad
          ELSE IF wt = 0 THEN
              LET v == decode_varint(b, key.next)
              IN  IF ~v.ok THEN bad
                  ELSE Message_merge(b, v.next, IF tag = 1 THEN v.val ELSE n)
          ELSE IF tag = 1 THEN bad
          ELSE IF wt = 1 THEN
              IF key.next + 8 > Len(b) + 1 THEN bad ELSE Message_merge(b, key.next + 8, n)
          ELSE IF wt = 5 THEN
              IF key.next + 4 > Len(b) + 1 THEN bad ELSE Message_merge(b, key.next + 4, n)
          ELSE IF wt = 2 THEN
              LET l == decode_varint(b, key.next)
              IN  IF ~l.ok \/ l.next + l.val > Len(b) + 1 THEN bad
                  ELSE Message_merge(b, l.next + l.val, n)
          ELSE bad

\* Message::decode: [ok, msg]
Message_decode(b) ==
    LET r == Message_merge(b, 1, 0) IN [ok |-> r.ok, msg |-> [n |-> r.n]]

-----------------------------------------------------------------------------
(* TwirpError and its JSON form (serde_json with the derived Serialize and *)
(* Deserialize).  A serde_json::Value is [t, v]: t one of "null", "bool",  *)
(* "num", "str" and v its text; an absent meta (None) is NoMeta.           *)

NoMeta == [t |-> "none", v |-> <<>>]

JsonNull == [t |-> "null", v |-> <<>>]

\* TwirpError::new_meta
TwirpError_new_meta(status, error_type, msg, meta) ==
    [status |-> status, code |-> error_type, msg |-> msg, meta |-> meta]

\* TwirpError::new
TwirpError_new(status, code, msg) == TwirpError_new_meta(status, code, msg, NoMeta)

\* serde_json's format_escaped_str_contents over printable ASCII
RECURSIVE json_escape(_)
json_escape(t) ==
    IF t = <<>> THEN <<>>
    ELSE IF Len(t) = 1 THEN
        (IF t[1] = "\"" \/ t[1] = "\\" THEN <<"\\", t[1]>> ELSE t)
    ELSE LET h == Len(t) \div 2
         IN  json_escape(SubSeq(t, 1, h)) \o json_escape(SubSeq(t, h + 1, Len(t)))

json_string(t) == <<"\"">> \o json_escape(t) \o <<"\"">>

\* Serialize for serde_json::Value
Value_to_json(val) ==
    IF val.t = "null" THEN <<"n","u","l","l">>
    ELSE IF val.t = "str" THEN json_string(val.v)
    ELSE val.v

\* the text serde_json::to_vec writes for a TwirpError: status is skipped, meta
\* is skipped when it is None
TwirpError_json_text(e) ==
    <<"{">> \o json_string(<<"c","o","d","e">>) \o <<":">> \o json_string(e.code)
    \o <<",">> \o json_string(<<"m","s","g">>) \o <<":">> \o json_string(e.msg)
    \o (IF e.meta = NoMeta THEN <<>>
        ELSE <<",">> \o json_string(<<"m","e","t","a">>) \o <<":">> \o Value_to_json(e.meta))
    \o <<"}">>

\* TwirpError::to_json_bytes (serialising these field types never fails)
to_json_bytes(e) == as_bytes(TwirpError_json_text(e))

IsWs(c) == c = 32 \/ c = 9 \/ c = 10 \/ c = 13

IsDigit(c) == c >= 48 /\ c <= 57

\* serde_json's parse_whitespace: the first position from i that holds no blank
RECURSIVE SkipWs(_, _)
SkipWs(b, i) == IF i <= Len(b) /\ IsWs(b[i]) THEN SkipWs(b, i + 1) ELSE i

JsonFail == [ok |-> FALSE, val |-> JsonNull, next |-> 0]

\* the contents of a JSON string from position i (after the opening quote), as
\* serde_json's parse_str reads them: a backslash not itself escaped escapes the
\* next character, which is a quote, a backslash or a slash here; the string
\* ends at the first quote not escaped; only printable ASCII is read
ParseStrBody(b, i) ==
    LET \* p is escaped when an odd run of backslashes ends right before it
        Escaped(p, bs) ==
            (p - 1 - Max({j \in i..(p - 1) : b[j] # bs} \cup {i - 1})) % 2 = 1
        Contents(bs, quote, slash, end) ==
            LET leaders == {p \in i..(end - 1) : b[p] = bs /\ ~Escaped(p, bs)}
                Kept(kept) ==
                    [ok |-> TRUE,
                     val |-> [t |-> "str", v |-> [k \in 1..Len(kept) |-> Chr(b[kept[k]])]],
                     next |-> end + 1]
            IN  IF \E p \in i..(end - 1) : ~IsPrintable(b[p]) THEN JsonFail
                ELSE IF \E p \in leaders : b[p + 1] \notin {quote, bs, slash} THEN JsonFail
                ELSE Kept(Sorted((i..(end - 1)) \ leaders))
        Scan(bs, quote, slash) ==
            LET closers == {p \in i..Len(b) : b[p] = quote /\ ~Escaped(p, bs)}
            IN  IF closers = {} THEN JsonFail
                ELSE Contents(bs, quote, slash, Min(closers))
    IN  Scan(Ord("\\"), Ord("\""), Ord("/"))

\* a run of digits from position i
RECURSIVE ParseDigits(_, _, _)
ParseDigits(b, i, acc) ==
    IF i <= Len(b) /\ IsDigit(b[i]) THEN ParseDigits(b, i + 1, Append(acc, Chr(b[i])))
    ELSE [ok |-> TRUE, val |-> [t |-> "num", v |-> acc], next |-> i]

\* the literal lit at position i
ParseLit(b, i, lit, val) ==
    IF i + Len(lit) - 1 <= Len(b) /\ SubSeq(b, i, i + Len(lit) - 1) = as_bytes(lit)
    THEN [ok |-> TRUE, val |-> val, next |-> i + Len(lit)]
    ELSE JsonFail

\* a scalar JSON value at position i: [ok, val, next]
ParseValue(b, i) ==
    IF i > Len(b) THEN JsonFail
    ELSE IF b[i] = Ord("\"") THEN ParseStrBody(b, i + 1)
    ELSE IF b[i] = Ord("n") THEN ParseLit(b, i, <<"n","u","l","l">>, JsonNull)
    ELSE IF b[i] = Ord("t") THEN
        ParseLit(b, i, <<"t","r","u","e">>, [t |-> "bool", v |-> <<"t","r","u","e">>])
    ELSE IF b[i] = Ord("f") THEN
        ParseLit(b, i, <<"f","a","l","s","e">>, [t |-> "bool", v |-> <<"f","a","l","s","e">>])
    ELSE IF IsDigit(b[i]) THEN
        IF b[i] = Ord("0") /\ i + 1 <= Len(b) /\ IsDigit(b[i + 1]) THEN JsonFail
        ELSE ParseDigits(b, i, <<>>)
    ELSE JsonFail

\* the fields the derived visitor has seen: each a sequence of zero or one
NoFields == [code |-> <<>>, msg |-> <<>>, meta |-> <<>>]

FieldsFail == [ok |-> FALSE, st |-> NoFields, next |-> 0]

\* the derived visit_map from position i, the first key of a member: a known
\* field given twice is an error, code and msg take strings only, an unknown
\* key is ignored; [ok, st, next]
RECURSIVE ParseMembers(_, _, _)
ParseMembers(b, i, st) ==
    LET Dup(key) ==
            \/ key = <<"c","o","d","e">> /\ st.code # <<>>
            \/ key = <<"m","s","g">> /\ st.msg # <<>>
            \/ key = <<"m","e","t","a">> /\ st.meta # <<>>
        Mistyped(key, val) ==
            key \in {<<"c","o","d","e">>, <<"m","s","g">>} /\ val.t # "str"
        Store(key, val) ==
            IF key = <<"c","o","d","e">> THEN [st EXCEPT !.code = <<val.v>>]
            ELSE IF key = <<"m","s","g">> THEN [st EXCEPT !.msg = <<val.v>>]
            ELSE IF key = <<"m","e","t","a">>
                 THEN [st EXCEPT !.meta = <<IF val.t = "null" THEN NoMeta ELSE val>>]
            ELSE st
        \* after the member's value v, at e
        AfterValue(key, v, e, st2) ==
            IF ~v.ok \/ Dup(key) \/ Mistyped(key, v.val) \/ e > Len(b) THEN FieldsFail
            ELSE IF b[e] = Ord("}") THEN [ok |-> TRUE, st |-> st2, next |-> e + 1]
            ELSE IF b[e] = Ord(",") THEN ParseMembers(b, SkipWs(b, e + 1), st2)
            ELSE FieldsFail
        Value(key, v) == AfterValue(key, v, SkipWs(b, v.next), Store(key, v.val))
        \* after the member's key k, at c
        AfterKey(k, c) ==
            IF ~k.ok \/ c > Len(b) \/ b[c] # Ord(":") THEN FieldsFail
            ELSE Value(k.val.v, ParseValue(b, SkipWs(b, c + 1)))
        Key(k) == AfterKey(k, SkipWs(b, k.next))
    IN  IF i > Len(b) \/ b[i] # Ord("\"") THEN FieldsFail
        ELSE Key(ParseStrBody(b, i + 1))

\* serde_json::from_slice::<TwirpError>: the object, then nothing but blanks;
\* code and msg are required, a missing meta is None: [ok, st]
TwirpError_from_slice(json) ==
    LET Object(s, m) ==
            IF s > Len(json) \/ json[s] # Ord("{") THEN FieldsFail
            ELSE IF m <= Len(json) /\ json[m] = Ord("}")
                 THEN [ok |-> TRUE, st |-> NoFields, next |-> m + 1]
            ELSE ParseMembers(json, m, NoFields)
        End(r) ==
            [ok |-> /\ r.ok
                    /\ SkipWs(json, r.next) > Len(json)
                    /\ r.st.code # <<>>
                    /\ r.st.msg # <<>>,
             st |-> r.st]
        Start(s) == End(Object(s, SkipWs(json, s + 1)))
    IN  Start(SkipWs(json, 1))

\* TwirpError::from_json_bytes, leaving the status that serde(skip) fills in
\* (StatusCode::default(), 200)
from_json_bytes_default_status(status, json) ==
    LET Parsed(r) ==
            IF r.ok
            THEN [ok |-> TRUE,
                  err |-> [status |-> 200, code |-> r.st.code[1], msg |-> r.st.msg[1],
                           meta |-> IF r.st.meta = <<>> THEN NoMeta ELSE r.st.meta[1]]]
            ELSE [ok |-> FALSE, err |-> TwirpError_new(status, <<>>, <<>>)]
    IN  Parsed(TwirpError_from_slice(json))

\* TwirpError::from_json_bytes: the parsed error with the given status: [ok, err]
from_json_bytes(status, json) ==
    LET Parsed(r) ==
            IF r.ok
            THEN [ok |-> TRUE,
                  err |-> [status |-> status, code |-> r.st.code[1], msg |-> r.st.msg[1],
                           meta |-> IF r.st.meta = <<>> THEN NoMeta ELSE r.st.meta[1]]]
            ELSE [ok |-> FALSE, err |-> TwirpError_new(status, <<>>, <<>>)]
    IN  Parsed(TwirpError_from_slice(json))

-----------------------------------------------------------------------------
(* ProstTwirpError.  A value is [kind, te, cause] for the five plain        *)
(* variants (te the TwirpError of kind "TwirpError", cause the hyper::Error *)
(* of kind "HyperError") and [kind |-> "AfterBodyError", body, method,      *)
(* version, headers, status, err] for the wrapper; an Option is a sequence  *)
(* of zero or one.                                                          *)

Err_TwirpError(e) == [kind |-> "TwirpError", te |-> <<e>>, cause |-> ""]

Err_JsonDecodeError == [kind |-> "JsonDecodeError", te |-> <<>>, cause |-> ""]

Err_ProstEncodeError == [kind |-> "ProstEncodeError", te |-> <<>>, cause |-> ""]

Err_ProstDecodeError == [kind |-> "ProstDecodeError", te |-> <<>>, cause |-> ""]

Err_HyperError(cause) == [kind |-> "HyperError", te |-> <<>>, cause |-> cause]

\* ProstTwirpError::root_err, unwrapping one layer only
root_err_one_layer(e) == IF e.kind = "AfterBodyError" THEN e.err ELSE e

\* ProstTwirpError::root_err
RECURSIVE root_err(_)
root_err(e) == IF e.kind = "AfterBodyError" THEN root_err(e.err) ELSE e

\* TwirpError::to_hyper_resp, were it to stamp the protobuf media type
TwirpError_to_hyper_resp_proto(e) ==
    LET body == to_json_bytes(e)
    IN  [status |-> e.status,
         version |-> Version_default,
         headers |-> HeaderMap_append(
                         HeaderMap_append(HeaderMap_new, CONTENT_TYPE, application_proto),
                         CONTENT_LENGTH, u64_to_string(Len(body))),
         body |-> body]

\* TwirpError::to_hyper_resp: the builder starts without headers and adds two
TwirpError_to_hyper_resp(e) ==
    LET body == to_json_bytes(e)
    IN  [status |-> e.status,
         version |-> Version_default,
         headers |-> HeaderMap_append(
                         HeaderMap_append(HeaderMap_new, CONTENT_TYPE, application_json),
                         CONTENT_LENGTH, u64_to_string(Len(body))),
         body |-> body]

\* ProstTwirpError::to_hyper_resp: [ok, resp] or [ok, err] (the hyper::Error)
to_hyper_resp(e) ==
    LET r == root_err(e)
    IN  IF r.kind = "ProstDecodeError" THEN
            [ok |-> TRUE,
             resp |-> TwirpError_to_hyper_resp(TwirpError_new(400,
                 <<"p","r","o","t","o","b","u","f","_","d","e","c","o","d","e","_","e","r","r">>,
                 <<"I","n","v","a","l","i","d"," ","p","r","o","t","o","b","u","f"," ","b","o","d","y">>))]
        ELSE IF r.kind = "TwirpError" THEN
            [ok |-> TRUE, resp |-> TwirpError_to_hyper_resp(r.te[1])]
        ELSE IF r.kind = "HyperError" THEN
            [ok |-> FALSE, err |-> r.cause]
        ELSE
            [ok |-> TRUE,
             resp |-> TwirpError_to_hyper_resp(TwirpError_new(500,
                 <<"i","n","t","e","r","n","a","l","_","e","r","r">>,
                 <<"I","n","t","e","r","n","a","l"," ","E","r","r","o","r">>))]

-----------------------------------------------------------------------------
(* ServiceRequest<T>: [uri, method, version, headers, input].  A hyper      *)
(* Request<Body> is [method, uri, version, headers, body].                  *)

\* Uri::default()
Uri_default == <<"/">>

\* ServiceRequest::new
ServiceRequest_new(input) ==
    [uri |-> Uri_default, method |-> "POST", version |-> Version_default,
     headers |-> HeaderMap_insert(HeaderMap_new, CONTENT_TYPE, application_proto),
     input |-> input]

\* ServiceRequest::clone_with_input, were it to build the envelope anew
clone_with_input_new(self, input) == ServiceRequest_new(input)

\* ServiceRequest::clone_with_input
clone_with_input(self, input) ==
    [uri |-> self.uri, method |-> self.method, version |-> self.version,
     headers |-> self.headers, input |-> input]

\* ServiceRequest::from_hyper_raw, once concat2 has yielded the body
Req_from_hyper_raw(req, body) ==
    [uri |-> req.uri, method |-> req.method, version |-> req.version,
     headers |-> req.headers, input |-> body]

\* ServiceRequest::to_hyper_raw, leaving the envelope's Content-Length in place
Req_to_hyper_raw_keep_length(self) ==
    [method |-> "POST", uri |-> self.uri, version |-> Version_default,
     headers |-> IF self.headers[CONTENT_LENGTH] = <<>>
                 THEN HeaderMap_insert(self.headers, CONTENT_LENGTH,
                                       u64_to_string(Len(self.input)))
                 ELSE self.headers,
     body |-> self.input]

\* ServiceRequest::to_hyper_raw: the builder sets the method, the uri and the
\* body (and leaves its default version); the headers are the envelope's with
\* Content-Length inserted
Req_to_hyper_raw(self) ==
    [method |-> "POST", uri |-> self.uri, version |-> Version_default,
     headers |-> HeaderMap_insert(self.headers, CONTENT_LENGTH,
                                  u64_to_string(Len(self.input))),
     body |-> self.input]

\* ServiceRequest::body_err
Req_body_err(self, err) ==
    [kind |-> "AfterBodyError", body |-> self.input, method |-> <<self.method>>,
     version |-> self.version, headers |-> self.headers, status |-> <<>>,
     err |-> err]

\* ServiceRequest::to_proto: [ok, val] or [ok, err]
Req_to_proto(self) ==
    LET d == Message_decode(self.input)
    IN  IF d.ok THEN [ok |-> TRUE, val |-> clone_with_input(self, d.msg)]
        ELSE [ok |-> FALSE, err |-> Req_body_err(self, Err_ProstDecodeError)]

\* Message::encode into a buffer with room for remaining_mut bytes: [ok, bytes]
Message_encode_into(m, remaining_mut) ==
    LET bytes == Message_encode(m)
    IN  IF Len(bytes) > remaining_mut THEN [ok |-> FALSE, bytes |-> <<>>]
        ELSE [ok |-> TRUE, bytes |-> bytes]

\* ServiceRequest::to_proto_raw: [ok, val] or [ok, err]
Req_to_proto_raw(self, remaining_mut) ==
    LET enc == Message_encode_into(self.input, remaining_mut)
    IN  IF ~enc.ok THEN [ok |-> FALSE, err |-> Err_ProstEncodeError]
        ELSE [ok |-> TRUE, val |-> clone_with_input(self, enc.bytes)]

\* ServiceRequest::to_hyper_proto: [ok, val] or [ok, err]
Req_to_hyper_proto(self, remaining_mut) ==
    LET raw == Req_to_proto_raw(self, remaining_mut)
    IN  IF raw.ok THEN [ok |-> TRUE, val |-> Req_to_hyper_raw(raw.val)] ELSE raw

-----------------------------------------------------------------------------
(* ServiceResponse<T>: [version, headers, status, output].  A hyper         *)
(* Response<Body> is [status, version, headers, body].                      *)

\* ServiceResponse::new
ServiceResponse_new(output) ==
    [version |-> Version_default,
     headers |-> HeaderMap_insert(HeaderMap_new, CONTENT_TYPE, application_proto),
     status |-> 200, output |-> output]

\* ServiceResponse::clone_with_output, were it to start from the default status
clone_with_output_default_status(self, output) ==
    [version |-> self.version, headers |-> self.headers, status |-> 200,
     output |-> output]

\* ServiceResponse::clone_with_output
clone_with_output(self, output) ==
    [version |-> self.version, headers |-> self.headers, status |-> self.status,
     output |-> output]

\* ServiceResponse::from_hyper_raw, once concat2 has yielded the body
Resp_from_hyper_raw(resp, body) ==
    [version |-> resp.version, headers |-> resp.headers, status |-> resp.status,
     output |-> body]

\* ServiceResponse::to_hyper_raw: the builder sets the status and the body (and
\* leaves its default version); the headers are the envelope's with
\* Content-Length inserted
Resp_to_hyper_raw(self) ==
    [status |-> self.status, version |-> Version_default,
     headers |-> HeaderMap_insert(self.headers, CONTENT_LENGTH,
                                  u64_to_string(Len(self.output))),
     body |-> self.output]

\* ServiceResponse::body_err
Resp_body_err(self, err) ==
    [kind |-> "AfterBodyError", body |-> self.output, method |-> <<>>,
     version |-> self.version, headers |-> self.headers, status |-> <<self.status>>,
     err |-> err]

\* ServiceResponse::to_proto: [ok, val] or [ok, err]
Resp_to_proto(self) ==
    IF is_success(self.status) THEN
        LET Decoded(d) ==
                IF d.ok THEN [ok |-> TRUE, val |-> clone_with_output(self, d.msg)]
                ELSE [ok |-> FALSE, err |-> Resp_body_err(self, Err_ProstDecodeError)]
        IN  Decoded(Message_decode(self.output))
    ELSE
        LET Parsed(j) ==
                IF j.ok THEN [ok |-> FALSE, err |-> Resp_body_err(self, Err_TwirpError(j.err))]
                ELSE [ok |-> FALSE, err |-> Resp_body_err(self, Err_JsonDecodeError)]
        IN  Parsed(from_json_bytes(self.status, self.output))

\* ServiceResponse::to_proto_raw: [ok, val] or [ok, err]
Resp_to_proto_raw(self, remaining_mut) ==
    LET enc == Message_encode_into(self.output, remaining_mut)
    IN  IF ~enc.ok THEN [ok |-> FALSE, err |-> Err_ProstEncodeError]
        ELSE [ok |-> TRUE, val |-> clone_with_output(self, enc.bytes)]

\* ServiceResponse::to_hyper_proto: [ok, val] or [ok, err]
Resp_to_hyper_proto(self, remaining_mut) ==
    LET raw == Resp_to_proto_raw(self, remaining_mut)
    IN  IF raw.ok THEN [ok |-> TRUE, val |-> Resp_to_hyper_raw(raw.val)] ELSE raw

-----------------------------------------------------------------------------
(* The client runtime: HyperClient.                                        *)

\* HyperClient::new, keeping the root URL as given
HyperClient_new_untrimmed(root_url) == [root_url |-> root_url]

\* HyperClient::new
HyperClient_new(root_url) == [root_url |-> trim_right_matches(root_url)]

\* HyperClient::go, the target URI: format!("{}/{}", root_url, path.trim_left_matches('/'))
go_uri(self, path) == self.root_url \o <<"/">> \o trim_left_matches(path)

\* HyperClient::go, the request it builds: to_hyper_proto, then the uri
\* overwritten; [ok, val] or [ok, err]
go_request(self, path, req, remaining_mut) ==
    LET h == Req_to_hyper_proto(req, remaining_mut)
    IN  IF h.ok THEN [ok |-> TRUE, val |-> [h.val EXCEPT !.uri = go_uri(self, path)]]
        ELSE h

-----------------------------------------------------------------------------
(* The server dispatch the generator emits for a service.                  *)

\* the service descriptor handed to the generator (prost_build::Service)
Service ==
    [package |-> <<"x">>, proto_name |-> <<"S","v","c">>,
     methods |-> << [proto_name |-> <<"D","o">>, name |-> "do"],
                    [proto_name |-> <<"U","n","d","o">>, name |-> "undo"] >>]

\* TwirpServiceGenerator::twirp_uri
twirp_uri(service, method) ==
    <<"/","t","w","i","r","p","/">> \o service.package \o <<".">>
    \o service.proto_name \o <<"/">> \o method.proto_name

\* the first position from i of t that holds one of the characters cs, or Len(t) + 1
FindChar(t, i, cs) == Min({p \in i..Len(t) : t[p] \in cs} \cup {Len(t) + 1})

\* Uri::path: what follows the scheme and the authority, up to the query
Uri_path(uri) ==
    LET scheme == <<"h","t","t","p",":","/","/">>
        abs == Len(uri) >= Len(scheme) /\ SubSeq(uri, 1, Len(scheme)) = scheme
        from == IF abs THEN FindChar(uri, Len(scheme) + 1, {"/", "?"}) ELSE 1
        to == FindChar(uri, from, {"?"})
        p == SubSeq(uri, from, to - 1)
    IN  IF p = <<>> THEN <<"/">> ELSE p

\* the Content-Type guard of the emitted call: HeaderMap::get yields the first
\* value of the name
content_type_accepted(headers) ==
    /\ headers[CONTENT_TYPE] # <<>>
    /\ \/ headers[CONTENT_TYPE][1] = "application/proto"
       \/ headers[CONTENT_TYPE][1] = "application/json"

\* the response of the emitted call to a rejected Content-Type
bad_content_type_resp ==
    TwirpError_to_hyper_resp(TwirpError_new(415,
        <<"b","a","d","_","c","o","n","t","e","n","t","_","t","y","p","e">>,
        <<"C","o","n","t","e","n","t"," ","t","y","p","e"," ","m","u","s","t"," ",
          "b","e"," ","a","p","p","l","i","c","a","t","i","o","n","/",
          "p","r","o","t","o","b","u","f">>))

\* the response of the emitted match's default arm
not_found_resp ==
    TwirpError_to_hyper_resp(TwirpError_new(404,
        <<"n","o","t","_","f","o","u","n","d">>,
        <<"N","o","t"," ","f","o","u","n","d"," ","n","o">>))

\* the emitted match on (req.method, req.uri.path()): the arms are
\* (Method::POST, twirp_uri) per method, in order; the name of the method of
\* the first arm that matches, as a sequence of zero or one
route(req) ==
    LET hits == {i \in 1..Len(Service.methods) :
                    /\ req.method = "POST"
                    /\ Uri_path(req.uri) = twirp_uri(Service, Service.methods[i])}
    IN  IF hits = {} THEN <<>>
        ELSE <<Service.methods[CHOOSE i \in hits : \A j \in hits : i <= j].name>>

-----------------------------------------------------------------------------
(* The inputs drawn for one RPC.                                           *)

\* the root URLs a client is built with
Roots == { <<"h","t","t","p",":","/","/","h">>, <<"h","t","t","p",":","/","/","h","/">> }

DoPath == twirp_uri(Service, Service.methods[1])

MissingPath == <<"/","t","w","i","r","p","/","x",".","S","v","c","/","M","i","s","s","i","n","g">>

\* the paths handed to go
GoPaths == { DoPath, Tail(DoPath), twirp_uri(Service, Service.methods[2]), MissingPath }

\* the typed messages
Messages == { [n |-> 0], [n |-> 7], [n |-> 300] }

\* the room the encoder finds in its buffer (a Vec has room for anything a
\* process can hold)
Rooms == { 0, 64 }

\* the header sets a caller or a handler leaves in an envelope built by new
EnvelopeHeaders ==
    LET d == HeaderMap_insert(HeaderMap_new, CONTENT_TYPE, application_proto)
    IN  { d,
          HeaderMap_insert(d, CONTENT_TYPE, application_json),
          HeaderMap_insert(d, CONTENT_TYPE, "application/proto"),
          HeaderMap_insert(d, CONTENT_TYPE, "text/plain"),
          HeaderMap_new,
          HeaderMap_insert(d, X_TRACE, "t1"),
          HeaderMap_insert(HeaderMap_insert(d, CONTENT_TYPE, application_json),
                           CONTENT_LENGTH, "999") }

\* the typed requests a caller hands to go
CallerRequests ==
    { [ServiceRequest_new(m) EXCEPT !.headers = h, !.version = v] :
        m \in {[n |-> 0], [n |-> 300]}, h \in EnvelopeHeaders, v \in {"HTTP/1.1", "HTTP/2.0"} }

\* the HTTP requests another peer sends to the server
PeerRequests ==
    { [method |-> m, uri |-> u, version |-> Version_default,
       headers |-> [HeaderMap_new EXCEPT ![CONTENT_TYPE] = ct], body |-> b] :
        m \in {"POST", "GET"},
        u \in { DoPath, DoPath \o <<"?","q">>, MissingPath },
        ct \in { <<>>, <<"application/protobuf">>, <<"application/proto">>,
                 <<"application/json">>, <<"text/plain">>,
                 <<"text/plain", "application/json">> },
        b \in { <<>>, <<8, 7>>, <<8>>, as_bytes(<<"{","}">>) } }

\* the TwirpErrors a handler fails with
HandlerTwirpErrors ==
    { TwirpError_new(403, <<"f","o","r","b","i","d","d","e","n">>, <<"n","o">>),
      TwirpError_new(404, <<"g","o","n","e">>, <<>>),
      TwirpError_new_meta(400, <<"a","\"">>, <<"\\","b">>, [t |-> "str", v |-> <<"x">>]),
      TwirpError_new_meta(500, <<"i">>, <<"m">>, [t |-> "num", v |-> <<"1","2">>]),
      TwirpError_new(200, <<"o","k">>, <<"m">>) }

\* the plain errors a handler fails with
HandlerPlainErrors ==
    { Err_TwirpError(e) : e \in HandlerTwirpErrors }
    \cup { Err_JsonDecodeError, Err_ProstEncodeError, Err_ProstDecodeError,
           Err_HyperError("reset") }

\* what a handler returns: Ok(ServiceResponse) or Err(ProstTwirpError)
HandlerResults ==
    { [ok |-> TRUE, val |-> r] :
        r \in { ServiceResponse_new(m) : m \in {[n |-> 0], [n |-> 7]} }
              \cup { [ServiceResponse_new([n |-> 7]) EXCEPT !.status = st] : st \in {201, 500} }
              \cup { [ServiceResponse_new([n |-> 7]) EXCEPT !.headers = h] : h \in EnvelopeHeaders }
              \cup { [ServiceResponse_new([n |-> 7]) EXCEPT !.version = "HTTP/2.0"] } }
    \cup { [ok |-> FALSE, err |-> e] : e \in HandlerPlainErrors }
    \cup { [ok |-> FALSE, err |-> Resp_body_err(ServiceResponse_new(<<8, 7>>), e)] :
             e \in HandlerPlainErrors }

-----------------------------------------------------------------------------
(* One RPC: the client call, the wire, the server dispatch.                *)

Idle == [pc |-> "idle", req |-> <<>>, typed |-> <<>>, handler |-> <<>>, ret |-> <<>>,
         error |-> <<>>]

NoCall(client) == [pc |-> "idle", client |-> client, path |-> <<>>, req |-> <<>>,
                   remaining_mut |-> 0, res |-> <<>>]

NoFn == [op |-> "none"]

Init ==
    /\ cli \in { NoCall(HyperClient_new(r)) : r \in Roots }
    /\ hreq = <<>>
    /\ srv = Idle
    /\ hresp = <<>>
    /\ log = <<>>
    /\ nSent = 0
    /\ fin = NoFn
    /\ fout = <<>>

\* HyperClient::go up to its suspension in client.request: on an encode error
\* it returns the error, else it issues the request
Go(path, req, remaining_mut) ==
    /\ cli.pc = "idle" /\ srv.pc = "idle" /\ hreq = <<>>
    /\ LET r == go_request(cli.client, path, req, remaining_mut)
       IN  IF r.ok
           THEN /\ hreq' = <<r.val>>
                /\ nSent' = nSent + 1
                /\ cli' = [cli EXCEPT !.pc = "sent", !.path = path, !.req = <<req>>,
                                      !.remaining_mut = remaining_mut]
           ELSE /\ cli' = [cli EXCEPT !.pc = "done", !.path = path, !.req = <<req>>,
                                      !.remaining_mut = remaining_mut, !.res = <<r>>]
                /\ UNCHANGED <<hreq, nSent>>
    /\ UNCHANGED <<srv, hresp, log, fin, fout>>

\* a request of another HTTP peer reaches the server
PeerRequest(req) ==
    /\ cli.pc = "idle" /\ srv.pc = "idle" /\ hreq = <<>>
    /\ hreq' = <<req>>
    /\ cli' = [cli EXCEPT !.pc = "unused"]
    /\ UNCHANGED <<srv, hresp, log, nSent, fin, fout>>

\* HyperClient::go, were it to issue the request again when client.request fails
TransportFail_retry(cause) ==
    /\ cli.pc = "sent"
    /\ hreq # <<>>
    /\ nSent < 3
    /\ nSent' = nSent + 1
    /\ UNCHANGED <<cli, hreq, srv, hresp, log, fin, fout>>

\* HyperClient::go, client.request fails: map_err(HyperError), no second request
TransportFail(cause) ==
    /\ cli.pc = "sent"
    /\ hreq # <<>> \/ srv.pc = "failed"
    /\ cli' = [cli EXCEPT !.pc = "done", !.res = <<[ok |-> FALSE, err |-> Err_HyperError(cause)]>>]
    /\ hreq' = <<>>
    /\ UNCHANGED <<srv, hresp, log, nSent, fin, fout>>

\* the emitted Service::call up to its suspension in from_hyper_raw: the
\* Content-Type guard, which answers 415 at once
Call ==
    /\ srv.pc = "idle" /\ hreq # <<>>
    /\ hreq' = <<>>
    /\ IF content_type_accepted(hreq[1].headers)
       THEN /\ srv' = [srv EXCEPT !.pc = "reading", !.req = hreq]
            /\ UNCHANGED <<hresp, log>>
       ELSE /\ srv' = [srv EXCEPT !.pc = "responded", !.req = hreq]
            /\ hresp' = <<bad_content_type_resp>>
            /\ log' = Append(log, "respond")
    /\ UNCHANGED <<cli, nSent, fin, fout>>

\* the emitted Service::call from the body's arrival, were the matched arm to
\* invoke the handler before to_proto has decoded the input
BodyRead_handler_before_decode ==
    /\ srv.pc = "reading"
    /\ LET req == Req_from_hyper_raw(srv.req[1], srv.req[1].body)
           hit == route(req)
       IN  IF hit = <<>> THEN
               /\ srv' = [srv EXCEPT !.pc = "responded"]
               /\ hresp' = <<not_found_resp>>
               /\ log' = log \o <<"body", "respond">>
           ELSE
               /\ srv' = [srv EXCEPT !.pc = "handler", !.typed = <<clone_with_input(req, [n |-> 0])>>,
                                     !.handler = hit]
               /\ hresp' = hresp
               /\ log' = log \o <<"body", "handler", "decode">>
    /\ UNCHANGED <<cli, hreq, nSent, fin, fout>>

\* the emitted Service::call from the body's arrival to the handler's future:
\* the match, to_proto and the handler's invocation; an error goes through
\* or_else(to_hyper_resp)
BodyRead ==
    /\ srv.pc = "reading"
    /\ LET req == Req_from_hyper_raw(srv.req[1], srv.req[1].body)
           hit == route(req)
           typed == Req_to_proto(req)
       IN  IF hit = <<>> THEN
               /\ srv' = [srv EXCEPT !.pc = "responded"]
               /\ hresp' = <<not_found_resp>>
               /\ log' = log \o <<"body", "respond">>
           ELSE IF ~typed.ok THEN
               /\ srv' = [srv EXCEPT !.pc = "responded"]
               /\ hresp' = <<to_hyper_resp(typed.err).resp>>
               /\ log' = log \o <<"body", "respond">>
           ELSE
               /\ srv' = [srv EXCEPT !.pc = "handler", !.typed = <<typed.val>>,
                                     !.handler = hit]
               /\ hresp' = hresp
               /\ log' = log \o <<"body", "decode", "handler">>
    /\ UNCHANGED <<cli, hreq, nSent, fin, fout>>

\* from_hyper_raw fails: or_else(to_hyper_resp) hands the hyper::Error on
BodyReadFail(cause) ==
    /\ srv.pc = "reading"
    /\ LET r == to_hyper_resp(Err_HyperError(cause))
       IN  srv' = [srv EXCEPT !.pc = "failed", !.error = <<r.err>>]
    /\ log' = Append(log, "error")
    /\ UNCHANGED <<cli, hreq, hresp, nSent, fin, fout>>

\* the emitted Service::call from the handler's result to the response:
\* to_hyper_proto on Ok, or_else(to_hyper_resp) on an error
HandlerReturn(ret, remaining_mut) ==
    /\ srv.pc = "handler"
    /\ LET out == IF ret.ok THEN Resp_to_hyper_proto(ret.val, remaining_mut) ELSE ret
           fin_ == IF out.ok THEN [ok |-> TRUE, resp |-> out.val] ELSE to_hyper_resp(out.err)
       IN  IF fin_.ok
           THEN /\ srv' = [srv EXCEPT !.pc = "responded", !.ret = <<ret>>]
                /\ hresp' = <<fin_.resp>>
                /\ log' = log \o (IF out.ok THEN <<"encode", "respond">> ELSE <<"respond">>)
           ELSE /\ srv' = [srv EXCEPT !.pc = "failed", !.ret = <<ret>>, !.error = <<fin_.err>>]
                /\ hresp' = hresp
                /\ log' = Append(log, "error")
    /\ UNCHANGED <<cli, hreq, nSent, fin, fout>>

\* HyperClient::go, the response arrives: from_hyper_proto reads the body and
\* to_proto decodes it
Receive ==
    /\ cli.pc = "sent" /\ hresp # <<>>
    /\ cli' = [cli EXCEPT !.pc = "done",
                          !.res = <<Resp_to_proto(Resp_from_hyper_raw(hresp[1], hresp[1].body))>>]
    /\ UNCHANGED <<hreq, srv, hresp, log, nSent, fin, fout>>

\* HyperClient::go, reading the response's body fails: map_err(HyperError)
ReceiveFail(cause) ==
    /\ cli.pc = "sent" /\ hresp # <<>>
    /\ cli' = [cli EXCEPT !.pc = "done", !.res = <<[ok |-> FALSE, err |-> Err_HyperError(cause)]>>]
    /\ UNCHANGED <<hreq, srv, hresp, log, nSent, fin, fout>>

Next ==
    \/ \E path \in GoPaths, req \in CallerRequests, room \in Rooms : Go(path, req, room)
    \/ \E req \in PeerRequests : PeerRequest(req)
    \/ TransportFail("connect")
    \/ Call
    \/ BodyRead
    \/ BodyReadFail("incomplete")
    \/ \E ret \in HandlerResults, room \in Rooms : HandlerReturn(ret, room)
    \/ Receive
    \/ ReceiveFail("incomplete")

Spec == Init /\ [][Next]_vars

-----------------------------------------------------------------------------
(* ProstTwirpError::to_hyper_resp on nested errors.                        *)

\* the envelopes whose body_err wraps an error
WrapRequests ==
    { Req_from_hyper_raw(r, r.body) :
        r \in { q \in PeerRequests : q.method = "POST" /\ q.uri = DoPath
                                     /\ q.headers[CONTENT_TYPE] = <<"application/json">>
                                     /\ q.body \in {<<>>, <<8>>} } }

WrapResponses ==
    { [ServiceResponse_new(b) EXCEPT !.status = st] : b \in {<<8, 7>>}, st \in {200, 403} }

\* an error under k layers of AfterBodyError, with the error innermost: [err, leaf, depth]
RECURSIVE Wrapped(_)
Wrapped(k) ==
    IF k = 0 THEN { [err |-> e, leaf |-> e, depth |-> 0] : e \in HandlerPlainErrors }
    ELSE LET W == Wrapped(k - 1)
         IN  W \cup { [err |-> Req_body_err(r, w.err), leaf |-> w.leaf, depth |-> w.depth + 1] :
                        r \in WrapRequests, w \in { x \in W : x.depth = k - 1 } }
               \cup { [err |-> Resp_body_err(r, w.err), leaf |-> w.leaf, depth |-> w.depth + 1] :
                        r \in WrapResponses, w \in { x \in W : x.depth = k - 1 } }

InitErr ==
    /\ cli = NoCall(HyperClient_new(<<>>))
    /\ hreq = <<>> /\ srv = Idle /\ hresp = <<>> /\ log = <<>> /\ nSent = 0
    /\ fin \in { [op |-> "to_hyper_resp", err |-> w.err, leaf |-> w.leaf, depth |-> w.depth] :
                   w \in Wrapped(MaxWrap) }
    /\ fout = <<>>

ApplyToHyperResp ==
    /\ fin.op = "to_hyper_resp" /\ fout = <<>>
    /\ fout' = <<to_hyper_resp(fin.err)>>
    /\ UNCHANGED <<cli, hreq, srv, hresp, log, nSent, fin>>

NextErr == ApplyToHyperResp

SpecErr == InitErr /\ [][NextErr]_vars

-----------------------------------------------------------------------------
(* to_hyper_raw and TwirpError::to_hyper_resp on any envelope.             *)

\* the byte sequences over bs of length n
RECURSIVE BytesOfLen(_, _)
BytesOfLen(bs, n) ==
    IF n = 0 THEN { <<>> }
    ELSE { <<b>> \o t : b \in bs, t \in BytesOfLen(bs, n - 1) }

\* the raw bodies: every one up to MaxBody bytes, and one of two digits' length
RawBodies ==
    UNION { BytesOfLen({8, 123}, n) : n \in 0..MaxBody }
    \cup { to_json_bytes(TwirpError_new(500, <<"i">>, <<"m">>)) }

\* the header sets of a raw envelope, some with a Content-Length already
RawHeaders ==
    { [h \in HeaderNames |->
         IF h = CONTENT_TYPE THEN ct ELSE IF h = CONTENT_LENGTH THEN cl ELSE x] :
        ct \in { <<>>, <<application_proto>> },
        cl \in { <<>>, <<"999">>, <<"0", "7">> },
        x \in { <<>>, <<"t1", "t2">> } }

InitRaw ==
    /\ cli = NoCall(HyperClient_new(<<>>))
    /\ hreq = <<>> /\ srv = Idle /\ hresp = <<>> /\ log = <<>> /\ nSent = 0
    /\ fin \in { [op |-> "request", headers |-> h, payload |-> b,
                  env |-> [ServiceRequest_new(b) EXCEPT
                               !.headers = h, !.method = m]] :
                   h \in RawHeaders, b \in RawBodies, m \in {"POST", "GET"} }
          \cup { [op |-> "response", headers |-> h, payload |-> b,
                  env |-> [ServiceResponse_new(b) EXCEPT !.headers = h, !.status = st]] :
                   h \in RawHeaders, b \in RawBodies, st \in {200, 404} }
          \cup { [op |-> "error", headers |-> HeaderMap_new, payload |-> to_json_bytes(e),
                  env |-> e] : e \in HandlerTwirpErrors }
    /\ fout = <<>>

ApplyReqToHyperRaw ==
    /\ fin.op = "request" /\ fout = <<>>
    /\ fout' = <<Req_to_hyper_raw(fin.env)>>
    /\ UNCHANGED <<cli, hreq, srv, hresp, log, nSent, fin>>

ApplyRespToHyperRaw ==
    /\ fin.op = "response" /\ fout = <<>>
    /\ fout' = <<Resp_to_hyper_raw(fin.env)>>
    /\ UNCHANGED <<cli, hreq, srv, hresp, log, nSent, fin>>

ApplyTwirpErrorToHyperResp ==
    /\ fin.op = "error" /\ fout = <<>>
    /\ fout' = <<TwirpError_to_hyper_resp(fin.env)>>
    /\ UNCHANGED <<cli, hreq, srv, hresp, log, nSent, fin>>

NextRaw == ApplyReqToHyperRaw \/ ApplyRespToHyperRaw \/ ApplyTwirpErrorToHyperResp

SpecRaw == InitRaw /\ [][NextRaw]_vars

-----------------------------------------------------------------------------
(* The client's target URI for any root URL and path.                      *)

RECURSIVE Slashes(_)
Slashes(k) == IF k = 0 THEN <<>> ELSE <<"/">> \o Slashes(k - 1)

\* root URLs without a slash at the end
RootBases ==
    { <<"h","t","t","p",":","/","/","h">>,
      <<"h","t","t","p",":","/","/","h","/","a","p","i">>,
      <<"h","t","t","p",":","/","/","h",":","8","/","a","/","/","b">> }

\* paths without a slash at the start
PathBases ==
    { Tail(DoPath), <<"a","/","/","b">>, <<>>, <<"x","/">> }

InitUri ==
    /\ \E base \in RootBases, k \in 0..MaxSlash :
          /\ cli = NoCall(HyperClient_new(base \o Slashes(k)))
          /\ fin = [op |-> "go", rootBase |-> base, k |-> k]
    /\ hreq = <<>> /\ srv = Idle /\ hresp = <<>> /\ log = <<>> /\ nSent = 0
    /\ fout = <<>>

\* HyperClient::go, its first statement
GoUri(base, j) ==
    /\ fin.op = "go" /\ fout = <<>>
    /\ fout' = <<[pathBase |-> base, j |-> j, uri |-> go_uri(cli.client, Slashes(j) \o base)]>>
    /\ UNCHANGED <<cli, hreq, srv, hresp, log, nSent, fin>>

NextUri == \E base \in PathBases, j \in 0..MaxSlash : GoUri(base, j)

SpecUri == InitUri /\ [][NextUri]_vars

-----------------------------------------------------------------------------
(* TwirpError::to_json_bytes followed by TwirpError::from_json_bytes, on   *)
(* any TwirpError.                                                         *)

\* the texts of a code or a msg: empty, plain, and with the characters JSON
\* escapes or gives a meaning to
JsonTexts ==
    { <<>>, <<"i","n","t","e","r","n","a","l">>, <<"a","\"">>, <<"\\">>,
      <<"\\","\"","/">>, <<"\"",",","\"","m","s","g","\"",":","}">> }

\* the values of meta: None, and Some of null, of a string, of a number and
\* of a boolean
JsonMetas ==
    { NoMeta, JsonNull,
      [t |-> "str", v |-> <<"x">>], [t |-> "str", v |-> <<"\"","\\">>],
      [t |-> "num", v |-> <<"1","2">>], [t |-> "num", v |-> <<"0">>],
      [t |-> "bool", v |-> <<"t","r","u","e">>],
      [t |-> "bool", v |-> <<"f","a","l","s","e">>] }

\* the statuses of the error and the statuses handed to from_json_bytes
JsonStatuses == {200, 404, 500}

InitJson ==
    /\ cli = NoCall(HyperClient_new(<<>>))
    /\ hreq = <<>> /\ srv = Idle /\ hresp = <<>> /\ log = <<>> /\ nSent = 0
    /\ fin \in { [op |-> "json", status |-> s, e |-> TwirpError_new_meta(st, c, m, meta)] :
                   s \in JsonStatuses, st \in {500, 403}, c \in JsonTexts,
                   m \in { <<>>, <<"S","o","m","e","t","h","i","n","g">>, <<"\\","\"">> },
                   meta \in JsonMetas }
    /\ fout = <<>>

\* TwirpError::to_json_bytes on the error
ApplyToJsonBytes ==
    /\ fin.op = "json" /\ fout = <<>>
    /\ fout' = <<[json |-> to_json_bytes(fin.e), back |-> <<>>]>>
    /\ UNCHANGED <<cli, hreq, srv, hresp, log, nSent, fin>>

\* TwirpError::from_json_bytes on the bytes written
ApplyFromJsonBytes ==
    /\ fin.op = "json" /\ fout # <<>> /\ fout[1].back = <<>>
    /\ fout' = <<[fout[1] EXCEPT !.back = <<from_json_bytes(fin.status, fout[1].json)>>]>>
    /\ UNCHANGED <<cli, hreq, srv, hresp, log, nSent, fin>>

NextJson == ApplyToJsonBytes \/ ApplyFromJsonBytes

SpecJson == InitJson /\ [][NextJson]_vars

-----------------------------------------------------------------------------
(* to_proto_raw followed by to_proto, on any typed envelope.               *)

\* the room of the fresh Vec that to_proto_raw encodes into: more than the
\* length of any message
VecRooms == { r \in Rooms : \A m \in Messages : Len(Message_encode(m)) <= r }

\* the typed request envelopes
TypedRequests ==
    { [uri |-> u, method |-> md, version |-> v, headers |-> h, input |-> m] :
        u \in { Uri_default, DoPath }, md \in { "POST", "GET" },
        v \in { "HTTP/1.1", "HTTP/2.0" }, h \in EnvelopeHeaders, m \in Messages }

\* the typed response envelopes
TypedResponses ==
    { [version |-> v, headers |-> h, status |-> st, output |-> m] :
        v \in { "HTTP/1.1", "HTTP/2.0" }, h \in EnvelopeHeaders,
        st \in { 200, 201, 204, 404, 500 }, m \in Messages }

InitTrip ==
    /\ cli = NoCall(HyperClient_new(<<>>))
    /\ hreq = <<>> /\ srv = Idle /\ hresp = <<>> /\ log = <<>> /\ nSent = 0
    /\ fin \in { [op |-> "request_trip", env |-> r, remaining_mut |-> room] :
                   r \in TypedRequests, room \in VecRooms }
          \cup { [op |-> "response_trip", env |-> r, remaining_mut |-> room] :
                   r \in TypedResponses, room \in VecRooms }
    /\ fout = <<>>

\* ServiceRequest::to_proto_raw on the typed request
ApplyReqToProtoRaw ==
    /\ fin.op = "request_trip" /\ fout = <<>>
    /\ fout' = <<[raw |-> Req_to_proto_raw(fin.env, fin.remaining_mut), back |-> <<>>]>>
    /\ UNCHANGED <<cli, hreq, srv, hresp, log, nSent, fin>>

\* ServiceRequest::to_proto on the raw request it gave
ApplyReqToProto ==
    /\ fin.op = "request_trip" /\ fout # <<>>
    /\ fout[1].raw.ok /\ fout[1].back = <<>>
    /\ fout' = <<[fout[1] EXCEPT !.back = <<Req_to_proto(fout[1].raw.val)>>]>>
    /\ UNCHANGED <<cli, hreq, srv, hresp, log, nSent, fin>>

\* ServiceResponse::to_proto_raw on the typed response
ApplyRespToProtoRaw ==
    /\ fin.op = "response_trip" /\ fout = <<>>
    /\ fout' = <<[raw |-> Resp_to_proto_raw(fin.env, fin.remaining_mut), back |-> <<>>]>>
    /\ UNCHANGED <<cli, hreq, srv, hresp, log, nSent, fin>>

\* ServiceResponse::to_proto on the raw response it gave
ApplyRespToProto ==
    /\ fin.op = "response_trip" /\ fout # <<>>
    /\ fout[1].raw.ok /\ fout[1].back = <<>>
    /\ fout' = <<[fout[1] EXCEPT !.back = <<Resp_to_proto(fout[1].raw.val)>>]>>
    /\ UNCHANGED <<cli, hreq, srv, hresp, log, nSent, fin>>

NextTrip ==
    \/ ApplyReqToProtoRaw
    \/ ApplyReqToProto
    \/ ApplyRespToProtoRaw
    \/ ApplyRespToProto

SpecTrip == InitTrip /\ [][NextTrip]_vars

-----------------------------------------------------------------------------
(* What the claims speak of, in the state of one RPC.                      *)

\* the request the server dispatch was handed
ServerRequest == srv.req[1]

\* the dispatch answered from its Content-Type guard, before reading the body
RejectedByNegotiation == srv.pc = "responded" /\ log = <<"respond">>

\* the dispatch has read the body, so the request passed the guard
PassedNegotiation == srv.req # <<>> /\ log # <<>> /\ log[1] = "body"

HandlerInvoked == srv.handler # <<>>

\* the paths of the dispatch table
TablePaths == { twirp_uri(Service, Service.methods[i]) : i \in 1..Len(Service.methods) }

\* the client's call returned what it made of a response (not a transport error)
ClientGotResponse ==
    /\ cli.pc = "done" /\ hresp # <<>>
    /\ ~(~cli.res[1].ok /\ cli.res[1].err.kind \in {"HyperError", "ProstEncodeError"})

\* the handler failed with a plain TwirpError of a non-success status
HandlerFailedWithTwirpError ==
    /\ srv.ret # <<>> /\ ~srv.ret[1].ok
    /\ srv.ret[1].err.kind = "TwirpError"
    /\ ~is_success(srv.ret[1].err.te[1].status)

\* the handler returned Ok and its output was encoded into the response
HandlerOutputEncoded ==
    /\ srv.pc = "responded" /\ srv.ret # <<>> /\ srv.ret[1].ok
    /\ log[Len(log) - 1] = "encode"

NotFoundBody ==
    as_bytes(<<"{","\"","c","o","d","e","\"",":","\"","n","o","t","_","f","o","u","n","d","\"",
               ",","\"","m","s","g","\"",":","\"","N","o","t"," ","f","o","u","n","d","\"","}">>)

BadContentTypeBody ==
    as_bytes(<<"{","\"","c","o","d","e","\"",":","\"","b","a","d","_","c","o","n","t","e","n","t",
               "_","t","y","p","e","\"",",","\"","m","s","g","\"",":","\"","C","o","n","t","e","n","t",
               " ","t","y","p","e"," ","m","u","s","t"," ","b","e"," ","a","p","p","l","i","c","a","t",
               "i","o","n","/","p","r","o","t","o","b","u","f","\"","}">>)

-----------------------------------------------------------------------------
(* C1  Happy path: a request with Content-Type: application/protobuf is    *)
(* never rejected by content negotiation, and when a client built with     *)
(* ServiceRequest::new calls a registered path and gets the response, the  *)
(* handler of that path was invoked; if it returned ServiceResponse::new   *)
(* of a message, the client's result is Ok with status 200, Content-Type:  *)
(* application/protobuf and that message.                                  *)
C1_HappyPath ==
    /\ (srv.req # <<>> /\ ServerRequest.headers[CONTENT_TYPE] = <<application_proto>>)
          => ~RejectedByNegotiation
    /\ (/\ ClientGotResponse
        /\ cli.req[1].headers = ServiceRequest_new(cli.req[1].input).headers
        /\ Uri_path(go_uri(cli.client, cli.path)) \in TablePaths)
          => /\ HandlerInvoked
             /\ \A m \in Messages :
                   (srv.ret = <<[ok |-> TRUE, val |-> ServiceResponse_new(m)]>>
                    /\ HandlerOutputEncoded)
                     => /\ cli.res[1].ok
                        /\ cli.res[1].val.status = 200
                        /\ cli.res[1].val.headers[CONTENT_TYPE] = <<application_proto>>
                        /\ cli.res[1].val.output = m

(* C2  Content negotiation: a request whose Content-Type is absent or is   *)
(* neither application/protobuf nor application/json is answered 415 with  *)
(* the bad_content_type body, whatever its method, path and body, and no   *)
(* handler is invoked.                                                     *)
C2_BadContentType ==
    (/\ srv.req # <<>>
     /\ \/ ServerRequest.headers[CONTENT_TYPE] = <<>>
        \/ ServerRequest.headers[CONTENT_TYPE][1] \notin {application_proto, application_json})
      => /\ RejectedByNegotiation
         /\ hresp # <<>>
         /\ hresp[1].status = 415
         /\ hresp[1].body = BadContentTypeBody
         /\ ~HandlerInvoked

(* C3  Unknown route: a request that passed content negotiation and whose  *)
(* (method, path) is no entry of the dispatch table is answered 404 with   *)
(* the body {"code":"not_found","msg":"Not found"}, and no handler is      *)
(* invoked.                                                                *)
C3_NotFound ==
    (/\ PassedNegotiation
     /\ \/ ServerRequest.method # "POST"
        \/ Uri_path(ServerRequest.uri) \notin TablePaths)
      => /\ hresp # <<>>
         /\ hresp[1].status = 404
         /\ hresp[1].body = NotFoundBody
         /\ ~HandlerInvoked

(* C4 (as stated)  Handler error: when the handler fails with a TwirpError *)
(* of non-success status S, code c and msg m, the response has status S    *)
(* and the client's call returns ProstTwirpError::TwirpError with S, c and *)
(* m; to_proto never returns Ok for a non-success status, and returns the  *)
(* TwirpError variant with the status inherited when the body parses.      *)
C4_ClientSeesProtocolError ==
    /\ (HandlerFailedWithTwirpError /\ ClientGotResponse)
          => LET e == srv.ret[1].err.te[1]
             IN  /\ hresp[1].status = e.status
                 /\ ~cli.res[1].ok
                 /\ cli.res[1].err.kind = "TwirpError"
                 /\ cli.res[1].err.te[1].status = e.status
                 /\ cli.res[1].err.te[1].code = e.code
                 /\ cli.res[1].err.te[1].msg = e.msg
    /\ (ClientGotResponse /\ ~is_success(hresp[1].status))
          => /\ ~cli.res[1].ok
             /\ from_json_bytes(hresp[1].status, hresp[1].body).ok
                  => /\ cli.res[1].err.kind = "TwirpError"
                     /\ cli.res[1].err.te[1].status = hresp[1].status

(* C4 (amended)  Handler error: when the handler fails with a TwirpError   *)
(* of non-success status S, code c and msg m, the response has status S    *)
(* and the client's call returns an AfterBodyError carrying the response's *)
(* body, version, headers and status S, around the TwirpError variant with *)
(* S, c and m; to_proto never returns Ok for a non-success status: it      *)
(* returns an AfterBodyError around the TwirpError variant with the status *)
(* inherited when the body parses, around JsonDecodeError when not.        *)
C4_ClientSeesWrappedProtocolError ==
    /\ (HandlerFailedWithTwirpError /\ ClientGotResponse)
          => LET e == srv.ret[1].err.te[1]
             IN  /\ hresp[1].status = e.status
                 /\ ~cli.res[1].ok
                 /\ cli.res[1].err.kind = "AfterBodyError"
                 /\ cli.res[1].err.err.kind = "TwirpError"
                 /\ cli.res[1].err.err.te[1].status = e.status
                 /\ cli.res[1].err.err.te[1].code = e.code
                 /\ cli.res[1].err.err.te[1].msg = e.msg
    /\ (ClientGotResponse /\ ~is_success(hresp[1].status))
          => /\ ~cli.res[1].ok
             /\ cli.res[1].err.kind = "AfterBodyError"
             /\ cli.res[1].err.body = hresp[1].body
             /\ cli.res[1].err.version = hresp[1].version
             /\ cli.res[1].err.headers = hresp[1].headers
             /\ cli.res[1].err.status = <<hresp[1].status>>
             /\ cli.res[1].err.method = <<>>
             /\ IF from_json_bytes(hresp[1].status, hresp[1].body).ok
                THEN /\ cli.res[1].err.err.kind = "TwirpError"
                     /\ cli.res[1].err.err.te[1].status = hresp[1].status
                ELSE cli.res[1].err.err.kind = "JsonDecodeError"

\* the handler failed with TwirpError(403, "forbidden", "no") and the client's
\* call has returned the wrapped error
C4_Witness ==
    /\ HandlerFailedWithTwirpError /\ ClientGotResponse
    /\ srv.ret[1].err.te[1].status = 403
    /\ cli.res[1].err.kind = "AfterBodyError"
    /\ cli.res[1].err.err.te[1].code = <<"f","o","r","b","i","d","d","e","n">>

-----------------------------------------------------------------------------
\* the JSON body of a response, parsed
BodyOf(resp) == from_json_bytes(resp.status, resp.body)

ProtobufDecodeErrCode ==
    <<"p","r","o","t","o","b","u","f","_","d","e","c","o","d","e","_","e","r","r">>

InternalErrCode == <<"i","n","t","e","r","n","a","l","_","e","r","r">>

NotFoundCode == <<"n","o","t","_","f","o","u","n","d">>

BadContentTypeCode == <<"b","a","d","_","c","o","n","t","e","n","t","_","t","y","p","e">>

(* C5  ProstTwirpError::to_hyper_resp under any number of AfterBodyError   *)
(* layers goes by the innermost error alone: ProstDecodeError gives a 400  *)
(* response with code protobuf_decode_err, TwirpError a response with that *)
(* error's status and code, HyperError is handed on unchanged and gives no *)
(* response, JsonDecodeError and ProstEncodeError give a 500 response with *)
(* code internal_err.                                                      *)
C5_CanonicalMapping ==
    (fin.op = "to_hyper_resp" /\ fout # <<>>)
      => LET out == fout[1]
             leaf == fin.leaf
         IN  /\ out = to_hyper_resp(leaf)
             /\ IF leaf.kind = "HyperError"
                THEN ~out.ok /\ out.err = leaf.cause
                ELSE /\ out.ok
                     /\ BodyOf(out.resp).ok
                     /\ <<out.resp.status, BodyOf(out.resp).err.code>> =
                          IF leaf.kind = "ProstDecodeError" THEN <<400, ProtobufDecodeErrCode>>
                          ELSE IF leaf.kind = "TwirpError"
                               THEN <<leaf.te[1].status, leaf.te[1].code>>
                          ELSE <<500, InternalErrCode>>

\* a TwirpError under two layers or more has been mapped to its own status
C5_Witness ==
    /\ fin.op = "to_hyper_resp" /\ fout # <<>>
    /\ fin.depth >= 2
    /\ fin.leaf.kind = "TwirpError"
    /\ fout[1].ok /\ fout[1].resp.status = 403

(* C6  Content-Length discipline: the HTTP message that                    *)
(* ServiceRequest::to_hyper_raw, ServiceResponse::to_hyper_raw or          *)
(* TwirpError::to_hyper_resp emits carries exactly one Content-Length,     *)
(* the byte length of the emitted body, whatever Content-Length the        *)
(* envelope's headers held; the body is the payload and every other header *)
(* of the envelope is copied unchanged.                                    *)
C6_ContentLength ==
    (fin.op \in {"request", "response", "error"} /\ fout # <<>>)
      => LET out == fout[1]
         IN  /\ out.body = fin.payload
             /\ out.headers[CONTENT_LENGTH] = <<u64_to_string(Len(out.body))>>
             /\ fin.op \in {"request", "response"}
                  => \A h \in HeaderNames \ {CONTENT_LENGTH} : out.headers[h] = fin.headers[h]

\* a request envelope that held two other Content-Length values has been emitted
C6_Witness ==
    /\ fin.op = "request" /\ fout # <<>>
    /\ fin.headers[CONTENT_LENGTH] = <<"0", "7">>
    /\ Len(fin.payload) = MaxBody
    /\ Len(fout[1].headers[CONTENT_LENGTH]) = 1

(* C7  Client path construction: the target URI is the root URL without    *)
(* its trailing slashes, one '/', and the path without its leading         *)
(* slashes, however many slashes (zero included) the root ended with and   *)
(* the path began with.                                                    *)
C7_TargetUri ==
    (fin.op = "go" /\ fout # <<>>)
      => /\ fout[1].uri = fin.rootBase \o <<"/">> \o fout[1].pathBase
         /\ LET n == Len(fin.rootBase)
            IN  /\ fout[1].uri[n] # "/"
                /\ fout[1].uri[n + 1] = "/"
                /\ Len(fout[1].uri) > n + 1 => fout[1].uri[n + 2] # "/"

\* a root with the most trailing slashes met a path with the most leading ones
C7_Witness ==
    /\ fin.op = "go" /\ fout # <<>>
    /\ fin.k = MaxSlash /\ fout[1].j = MaxSlash
    /\ fout[1].pathBase # <<>>

(* C8  One HTTP exchange per call: go issues no request when encoding the  *)
(* typed request fails, and returns the ProstEncodeError; it issues one    *)
(* request otherwise, and never a second one, whether the first ends in a  *)
(* transport error, a non-success status or a failure to decode.           *)
C8_OneExchange ==
    /\ nSent <= 1
    /\ cli.pc \in {"sent", "done"}
         => IF Len(Message_encode(cli.req[1].input)) > cli.remaining_mut
            THEN /\ nSent = 0
                 /\ cli.pc = "done"
                 /\ cli.res = <<[ok |-> FALSE, err |-> Err_ProstEncodeError]>>
            ELSE nSent = 1

\* the call returned an error after its one request
C8_Witness ==
    /\ cli.pc = "done" /\ nSent = 1
    /\ ~cli.res[1].ok
    /\ cli.res[1].err.kind = "HyperError"

(* C9 (as stated)  Success response shape: when the handler returned Ok    *)
(* and its output was encoded, the HTTP response has status 200,           *)
(* Content-Type: application/protobuf and the encoded output as its body,  *)
(* whatever status and headers the handler's ServiceResponse holds.        *)
C9_Always200Protobuf ==
    HandlerOutputEncoded
      => /\ hresp[1].status = 200
         /\ hresp[1].headers[CONTENT_TYPE] = <<application_proto>>
         /\ hresp[1].body = Message_encode(srv.ret[1].val.output)

(* C9 (amended)  Success response shape: when the handler returned Ok and  *)
(* its output was encoded, the HTTP response has the status and the        *)
(* headers of the handler's ServiceResponse (Content-Length set to the     *)
(* body's length) and the encoded output as its body: status 200 and       *)
(* Content-Type: application/protobuf when the handler left the status and *)
(* headers as ServiceResponse::new set them.                               *)
C9_EnvelopeStatusAndHeaders ==
    HandlerOutputEncoded
      => LET r == srv.ret[1].val
         IN  /\ hresp[1].status = r.status
             /\ \A h \in HeaderNames \ {CONTENT_LENGTH} : hresp[1].headers[h] = r.headers[h]
             /\ hresp[1].headers[CONTENT_LENGTH] = <<u64_to_string(Len(hresp[1].body))>>
             /\ hresp[1].body = Message_encode(r.output)
             /\ (r.status = 200 /\ r.headers = ServiceResponse_new(r.output).headers)
                  => /\ hresp[1].status = 200
                     /\ hresp[1].headers[CONTENT_TYPE] = <<application_proto>>

\* a handler's response with status 201 went out with status 201
C9_Witness ==
    /\ HandlerOutputEncoded
    /\ srv.ret[1].val.status = 201
    /\ hresp[1].status = 201
    /\ hresp[1].body = <<8, 7>>

\* the status and code of the canonical table for the response the dispatch
\* gave by TwirpError::to_hyper_resp
CanonicalStatusAndCode ==
    IF RejectedByNegotiation THEN <<415, BadContentTypeCode>>
    ELSE IF ~HandlerInvoked THEN
        IF ServerRequest.method = "POST" /\ Uri_path(ServerRequest.uri) \in TablePaths
        THEN <<400, ProtobufDecodeErrCode>>
        ELSE <<404, NotFoundCode>>
    ELSE IF srv.ret[1].ok THEN <<500, InternalErrCode>>
    ELSE LET e == root_err(srv.ret[1].err)
         IN  IF e.kind = "TwirpError" THEN <<e.te[1].status, e.te[1].code>>
             ELSE IF e.kind = "ProstDecodeError" THEN <<400, ProtobufDecodeErrCode>>
             ELSE <<500, InternalErrCode>>

(* C10 (as stated)  Server failures are a JSON error envelope: every       *)
(* response of the dispatch with a non-success status has Content-Type:    *)
(* application/json and a TwirpError JSON body whose code goes with the    *)
(* status as the canonical table has it.                                   *)
C10_EveryFailureIsJson ==
    (hresp # <<>> /\ ~is_success(hresp[1].status))
      => /\ hresp[1].headers[CONTENT_TYPE] = <<application_json>>
         /\ BodyOf(hresp[1]).ok
         /\ <<hresp[1].status, BodyOf(hresp[1]).err.code>> = CanonicalStatusAndCode

(* C10 (amended)  Server failures are a JSON error envelope: every         *)
(* response of the dispatch with a non-success status, other than the      *)
(* encoding of a ServiceResponse that a handler returned (which has the    *)
(* handler's status and headers), has Content-Type: application/json and a *)
(* TwirpError JSON body whose code goes with the status as the canonical   *)
(* table has it.                                                           *)
C10_FailureIsJsonUnlessHandlerOk ==
    (hresp # <<>> /\ ~is_success(hresp[1].status) /\ ~HandlerOutputEncoded)
      => /\ hresp[1].headers[CONTENT_TYPE] = <<application_json>>
         /\ hresp[1].headers[CONTENT_LENGTH] = <<u64_to_string(Len(hresp[1].body))>>
         /\ BodyOf(hresp[1]).ok
         /\ <<hresp[1].status, BodyOf(hresp[1]).err.code>> = CanonicalStatusAndCode

\* a request whose body does not decode was answered 400 in JSON
C10_Witness ==
    /\ hresp # <<>> /\ hresp[1].status = 400
    /\ srv.ret = <<>> /\ PassedNegotiation
    /\ hresp[1].headers[CONTENT_TYPE] = <<application_json>>
    /\ BodyOf(hresp[1]).err.code = ProtobufDecodeErrCode

-----------------------------------------------------------------------------
(* C11  TwirpError JSON round trip: from_json_bytes(S, to_json_bytes(e))   *)
(* succeeds and yields e's code, msg and meta with status S, for every     *)
(* TwirpError e, its meta absent or present, and every status S.           *)
C11_JsonRoundTrip ==
    (fin.op = "json" /\ fout # <<>> /\ fout[1].back # <<>>)
        => /\ fout[1].back[1].ok
           /\ fout[1].back[1].err =
                  [status |-> fin.status, code |-> fin.e.code, msg |-> fin.e.msg,
                   meta |-> fin.e.meta]

-----------------------------------------------------------------------------
(* C12  Raw/typed envelope round trip: to_proto_raw succeeds and changes    *)
(* the payload only (to the message's encoding); to_proto on its result     *)
(* succeeds and yields the original envelope, payload, uri, method, version *)
(* and headers, for a request, and payload, version, headers and status for *)
(* a response whose status is a success status.                             *)
C12_EnvelopeRoundTrip ==
    /\ (fin.op = "request_trip" /\ fout # <<>>)
          => /\ fout[1].raw.ok
             /\ fout[1].raw.val = [fin.env EXCEPT !.input = Message_encode(fin.env.input)]
             /\ fout[1].back # <<>>
                   => /\ fout[1].back[1].ok
                      /\ fout[1].back[1].val = fin.env
    /\ (fin.op = "response_trip" /\ fout # <<>>)
          => /\ fout[1].raw.ok
             /\ fout[1].raw.val = [fin.env EXCEPT !.output = Message_encode(fin.env.output)]
             /\ (fout[1].back # <<>> /\ is_success(fin.env.status))
                   => /\ fout[1].back[1].ok
                      /\ fout[1].back[1].val = fin.env

\* a GET request over HTTP/2.0 with a trace header and a two-byte varint made the trip
C12_Witness ==
    /\ fin.op = "request_trip" /\ fout # <<>> /\ fout[1].back # <<>>
    /\ fin.env.method = "GET" /\ fin.env.version = "HTTP/2.0"
    /\ fin.env.uri = DoPath /\ fin.env.headers[X_TRACE] = <<"t1">>
    /\ fin.env.input.n = 300
    /\ fout[1].raw.val.input = <<8, 172, 2>>
    /\ fout[1].back[1].ok /\ fout[1].back[1].val.input.n = 300

-----------------------------------------------------------------------------
\* the HTTP request the client's call has sent: on the wire, or in the
\* server's hands (a sequence of zero or one)
ClientSentRequest ==
    IF cli.pc \notin {"sent", "done"} \/ nSent = 0 THEN <<>>
    ELSE IF hreq # <<>> THEN hreq
    ELSE srv.req

(* C13  Client request metadata: the HTTP request that go sends has the     *)
(* computed target URI as its URI, and its headers other than               *)
(* Content-Length and its HTTP version are those of the caller's            *)
(* ServiceRequest, for every version and header set of the envelope.        *)
C13_MetadataPreserved ==
    ClientSentRequest # <<>>
        => /\ ClientSentRequest[1].uri = go_uri(cli.client, cli.path)
           /\ \A h \in HeaderNames \ {CONTENT_LENGTH} :
                  ClientSentRequest[1].headers[h] = cli.req[1].headers[h]
           /\ ClientSentRequest[1].version = cli.req[1].version

-----------------------------------------------------------------------------
\* how many times the dispatch has taken the step s
StepCount(s) == Cardinality({i \in 1..Len(log) : log[i] = s})

\* the place of a step in one RPC; a response and a propagated error both end it
StepRank(s) ==
    IF s = "body" THEN 1
    ELSE IF s = "decode" THEN 2
    ELSE IF s = "handler" THEN 3
    ELSE IF s = "encode" THEN 4
    ELSE 5

\* the request in the server's hands names an entry of the dispatch table
EntryMatched ==
    /\ ServerRequest.method = "POST"
    /\ Uri_path(ServerRequest.uri) \in TablePaths

(* C14  Per-RPC ordering in the server dispatch: the steps body read, input *)
(* decoded, handler invoked, output encoded, response emitted occur in that *)
(* order, each at most once; the handler is invoked only after the whole    *)
(* body was read, an entry matched and the decode succeeded, and never when *)
(* the body read, the match or the decode fails; one request gets exactly   *)
(* one response or one propagated transport error.                          *)
C14_StepOrder ==
    /\ \A i, j \in 1..Len(log) : i < j => StepRank(log[i]) < StepRank(log[j])
    /\ StepCount("handler") <= 1
    /\ (StepCount("handler") = 1) = HandlerInvoked
    /\ HandlerInvoked
          => /\ StepCount("body") = 1 /\ StepCount("decode") = 1
             /\ EntryMatched
             /\ Message_decode(ServerRequest.body).ok
             /\ srv.typed # <<>>
             /\ srv.typed[1].input = Message_decode(ServerRequest.body).msg
    /\ (srv.req # <<>> /\ srv.pc # "reading"
          /\ (StepCount("body") = 0 \/ ~EntryMatched \/ ~Message_decode(ServerRequest.body).ok))
          => ~HandlerInvoked /\ StepCount("encode") = 0
    /\ StepCount("encode") = 1 => HandlerInvoked /\ srv.ret # <<>> /\ srv.ret[1].ok
    /\ StepCount("respond") = (IF hresp # <<>> THEN 1 ELSE 0)
    /\ StepCount("error") = (IF srv.error # <<>> THEN 1 ELSE 0)
    /\ StepCount("respond") + StepCount("error") =
          (IF srv.pc \in {"responded", "failed"} THEN 1 ELSE 0)

\* one RPC went through all five steps
C14_Witness ==
    /\ log = <<"body", "decode", "handler", "encode", "respond">>
    /\ srv.pc = "responded" /\ hresp # <<>>
    /\ srv.typed[1].input.n = 7

====
